---- MODULE Spec2Model ----
(***************************************************************************)
(* Hypno: presence, resonance and sacred-geometry (group) protocol.        *)
(*                                                                         *)
(* The shared store is the Firebase Realtime Database tree with the two    *)
(* top-level nodes /users and /sacredGeometry.  A node of the store exists *)
(* exactly when at least one of its children holds a value, so a record    *)
(* whose fields are all Null is the absent record.                         *)
(***************************************************************************)
EXTENDS Integers, Sequences, FiniteSets, TLC

(* ------------------------------ bounds --------------------------------- *)
NumSessions == 3      \* clients (session ids 1..NumSessions, in key order)
MaxGeoms == 1         \* geometry ids generated in Spec
MaxGeomsTwo == 2      \* geometry ids generated in SpecTwoGroups
MaxTotal == 4         \* joins stop once totalMembersEver reaches this value
MaxMembers == 4       \* member keys of the geometry given to SpecMainIntention
MaxTicks == 5         \* the clock advances at most this many heartbeat periods
MaxFree == 3          \* free places left by the clients not modelled one by one
MaxLost == 1          \* clients whose connection drops in SpecResonance
MaxEdges == 3         \* resonatingWith entries in the store in SpecResonance
MaxFading == 1        \* fades still running when the next store write is delivered
MaxTargets == 2       \* resonatingWith entries of one session in SpecConnections

Sessions == 1..NumSessions
GeomIds == 1..(IF MaxGeoms > MaxGeomsTwo THEN MaxGeoms ELSE MaxGeomsTwo)

Null == "null"   \* an absent string-valued field
NoId == 0         \* an absent id- or number-valued field
Intentions == {"observer", "peace"}
DefaultIntention == "observer"
MAX_CONNECTIONS == 100
HeartbeatMs == 30000
StaleMs == 120000

VARIABLES
    users,            \* /users/<sessionId>
    sacredGeometry,   \* /sacredGeometry/<geometryId>
    selfData,         \* HypnoApp.selfData of every client (cached copy of its own record)
    nextGeometryId,   \* number of geometry ids handed out by generateUUID
    pc,               \* the position of every client inside a method that has not returned
    lastOp,           \* history: the handler that ran last, its arguments and
                      \* the record of its geometry before it ran

    now,              \* wall clock and server clock, in ms
    others,           \* number of records under /users of clients not modelled one by one
    client,           \* FirebaseSync fields of every client: userRef, timers, listeners
    hooks,            \* sessions whose record has a registered onDisconnect().remove()

    appUsers,         \* HypnoApp.users of the client whose session is selfId
    appOrder,         \* the keys of that Map in insertion order
    shapes,           \* CosmicScene.users of that client: the shape of every id
    connections       \* ConnectionManager.connections of that client

groupVars == <<users, sacredGeometry, selfData, nextGeometryId>>
presenceVars == <<now, others, client, hooks>>
appVars == <<appUsers, appOrder, shapes, connections>>
otherVars == <<now, others, client, hooks, appUsers, appOrder, shapes, connections>>
vars == <<users, sacredGeometry, selfData, nextGeometryId, pc, lastOp,
          now, others, client, hooks, appUsers, appOrder, shapes, connections>>

(* ----------------------------- the store ------------------------------- *)
NoUser ==
    [intention |-> Null, position |-> Null, lastSeen |-> NoId,
     sacredGeometryId |-> NoId, sacredGeometryInvite |-> NoId,
     sacredGeometryInviteFrom |-> NoId, resonatingWith |-> <<>>]

NoMember == [intention |-> Null, pending |-> FALSE]
NoMembers == [m \in Sessions |-> NoMember]

NoGeometry ==
    [createdBy |-> NoId, center |-> Null, mainIntention |-> Null,
     totalMembersEver |-> NoId, members |-> NoMembers]

Store == [users |-> users, sacredGeometry |-> sacredGeometry]

\* a client that is inside no method
Idle == [at |-> "idle", g |-> NoId, currentTotal |-> NoId]

\* connection ids: getConnectionId(id1, id2) sorts the two ids, so the id of a
\* connection is the unordered pair
getConnectionId(id1, id2) == {id1, id2}
ConnIds == {getConnectionId(a, b) : a, b \in Sessions}

\* a connection id without a thread in ConnectionManager.connections
NoThread == [inMap |-> FALSE, isMutual |-> FALSE, isDisposing |-> FALSE]

\* HypnoApp, CosmicScene and ConnectionManager right after construction
NoAppUsers == [u \in Sessions |-> NoUser]
NoShapes == [u \in Sessions |-> "none"]
NoConnections == [c \in ConnIds |-> NoThread]

\* a members node without children
HasNoMembers(members) == \A m \in DOMAIN members : members[m] = NoMember

\* snapshot.val() === null
IsNoGeometry(geometryData) ==
    /\ geometryData.createdBy = NoId
    /\ geometryData.center = Null
    /\ geometryData.mainIntention = Null
    /\ geometryData.totalMembersEver = NoId
    /\ HasNoMembers(geometryData.members)

UserExists(db, s) == db.users[s] # NoUser
GeometryExists(db, g) == ~IsNoGeometry(db.sacredGeometry[g])

\* ref.update(fields) on /users/<s>: merges, creating the node when absent
UpdateUser(db, s, fields) ==
    [db EXCEPT !.users[s] =
        [f \in DOMAIN NoUser |-> IF f \in DOMAIN fields THEN fields[f] ELSE @[f]]]

\* ref.update(fields) on /sacredGeometry/<g>
UpdateGeometry(db, g, fields) ==
    [db EXCEPT !.sacredGeometry[g] =
        [f \in DOMAIN NoGeometry |-> IF f \in DOMAIN fields THEN fields[f] ELSE @[f]]]

\* set / update / remove of /sacredGeometry/<g>/members/<s>
SetMember(db, g, s, entry) == [db EXCEPT !.sacredGeometry[g].members[s] = entry]
RemoveMember(db, g, s) == [db EXCEPT !.sacredGeometry[g].members[s] = NoMember]
RemoveGeometry(db, g) == [db EXCEPT !.sacredGeometry[g] = NoGeometry]

\* members.filter(m => !m.pending), as the set of their keys
ActiveMembers(members) ==
    {m \in DOMAIN members : members[m] # NoMember /\ ~members[m].pending}
PendingMembers(members) ==
    {m \in DOMAIN members : members[m] # NoMember /\ members[m].pending}

\* getSelfData(): the caller's own record; snapshot.val() is null exactly when
\* the record is absent, which the model writes NoUser
getSelfData(db, s) == db.users[s]

(* ------------------- updateGeometryMainIntention ----------------------- *)
\* member.intention || 'observer'
MemberIntention(m) == IF m.intention = Null THEN DefaultIntention ELSE m.intention

\* keys of intentionCounts in insertion order: the intentions of the active
\* members in the order of their first occurrence, the members being
\* enumerated in key order (Object.values of the snapshot)
RECURSIVE IntentionOrder(_, _)
IntentionOrder(members, k) ==
    IF k = 0 THEN <<>>
    ELSE LET prev == IntentionOrder(members, k - 1)
             m == members[k]
         IN IF m = NoMember \/ m.pending THEN prev
            ELSE IF \E i \in 1..Len(prev) : prev[i] = MemberIntention(m) THEN prev
            ELSE Append(prev, MemberIntention(m))

IntentionCount(members, i) ==
    Cardinality({m \in ActiveMembers(members) : MemberIntention(members[m]) = i})

\* Object.entries(intentionCounts).forEach: if (count > maxCount) ...
RECURSIVE MostCommon(_, _, _, _, _)
MostCommon(order, members, idx, mainIntention, maxCount) ==
    IF idx > Len(order) THEN mainIntention
    ELSE LET c == IntentionCount(members, order[idx])
         IN IF c > maxCount
            THEN MostCommon(order, members, idx + 1, order[idx], c)
            ELSE MostCommon(order, members, idx + 1, mainIntention, maxCount)

ComputeMainIntention(geometryData) ==
    MostCommon(IntentionOrder(geometryData.members, Cardinality(DOMAIN geometryData.members)),
               geometryData.members, 1,
               IF geometryData.mainIntention = Null THEN DefaultIntention
               ELSE geometryData.mainIntention,
               0)

updateGeometryMainIntention_skip(db, g) == db
updateGeometryMainIntention(db, g) ==
    LET geometryData == db.sacredGeometry[g]
    IN IF IsNoGeometry(geometryData) \/ HasNoMembers(geometryData.members) THEN db
       ELSE UpdateGeometry(db, g, [mainIntention |-> ComputeMainIntention(geometryData)])

(* ----------------------- FirebaseSync group methods -------------------- *)
\* a record written by connect() carries intention and position
IsFull(u) == u.intention # Null /\ u.position # Null

\* const mainIntention = selfData.intention
InitialMainIntention_target(selfRec, targetData) == targetData.intention
InitialMainIntention(selfRec, targetData) == selfRec.intention

createSacredGeometry(db, s, t, g) ==
    LET selfRec == getSelfData(db, s)
        targetData == db.users[t]
    IN IF ~IsFull(selfRec) \/ ~IsFull(targetData) THEN db
       ELSE LET geometryData ==
                    [createdBy |-> s, center |-> "mid",
                     mainIntention |-> InitialMainIntention(selfRec, targetData),
                     totalMembersEver |-> 2,
                     members |->
                        [m \in Sessions |->
                            IF m = t THEN [intention |-> targetData.intention, pending |-> TRUE]
                            ELSE IF m = s THEN [intention |-> selfRec.intention, pending |-> FALSE]
                            ELSE NoMember]]
                d1 == [db EXCEPT !.sacredGeometry[g] = geometryData]
                d2 == UpdateUser(d1, s, [sacredGeometryId |-> g])
            IN UpdateUser(d2, t, [sacredGeometryInvite |-> g,
                                  sacredGeometryInviteFrom |-> s])

\* if (!selfData || !targetData) return null
createSucceeds_selfOnly(db, s, t) ==
    IsFull(getSelfData(db, s))
createSucceeds(db, s, t) ==
    IsFull(getSelfData(db, s)) /\ IsFull(db.users[t])

acceptSacredGeometryInvite(db, s, g) ==
    LET selfRec == getSelfData(db, s)
    IN IF selfRec = NoUser \/ selfRec.intention = Null THEN db
       ELSE LET d1 == SetMember(db, g, s, [intention |-> selfRec.intention, pending |-> FALSE])
                d2 == updateGeometryMainIntention(d1, g)
            IN UpdateUser(d2, s, [sacredGeometryId |-> g,
                                  sacredGeometryInvite |-> NoId,
                                  sacredGeometryInviteFrom |-> NoId])

\* userRef.update({sacredGeometryInvite: null, sacredGeometryInviteFrom: null})
declineSacredGeometryInvite_keepInviter(db, s) ==
    LET selfRec == getSelfData(db, s)
    IN IF selfRec = NoUser \/ selfRec.sacredGeometryInvite = NoId THEN db
       ELSE LET d1 == RemoveMember(db, selfRec.sacredGeometryInvite, s)
            IN UpdateUser(d1, s, [sacredGeometryInvite |-> NoId])
declineSacredGeometryInvite(db, s) ==
    LET selfRec == getSelfData(db, s)
    IN IF selfRec = NoUser \/ selfRec.sacredGeometryInvite = NoId THEN db
       ELSE LET d1 == RemoveMember(db, selfRec.sacredGeometryInvite, s)
            IN UpdateUser(d1, s, [sacredGeometryInvite |-> NoId,
                                  sacredGeometryInviteFrom |-> NoId])

\* geometryData?.totalMembersEver || 1
CurrentTotal(geometryData) ==
    IF geometryData.totalMembersEver = NoId THEN 1 ELSE geometryData.totalMembersEver

joinSacredGeometry(db, s, g) ==
    LET selfRec == getSelfData(db, s)
    IN IF selfRec = NoUser \/ selfRec.intention = Null THEN db
       ELSE LET currentTotal == CurrentTotal(db.sacredGeometry[g])
                d1 == SetMember(db, g, s, [intention |-> selfRec.intention, pending |-> FALSE])
                d2 == UpdateGeometry(d1, g, [totalMembersEver |-> currentTotal + 1])
                d3 == updateGeometryMainIntention(d2, g)
            IN UpdateUser(d3, s, [sacredGeometryId |-> g])

\* activeMembers.length === 0 after the caller's entry is removed
LeaveDeletes_noMembers(members) == HasNoMembers(members)
LeaveDeletes(members) == ActiveMembers(members) = {}

leaveSacredGeometry(db, s) ==
    LET selfRec == getSelfData(db, s)
    IN IF selfRec = NoUser \/ selfRec.sacredGeometryId = NoId THEN db
       ELSE LET g == selfRec.sacredGeometryId
                d1 == RemoveMember(db, g, s)
                d2 == IF LeaveDeletes(d1.sacredGeometry[g].members)
                      THEN RemoveGeometry(d1, g) ELSE d1
            IN UpdateUser(d2, s, [sacredGeometryId |-> NoId])

(* ------------------------- HypnoApp handlers --------------------------- *)
\* this.selfData = await this.firebase.getSelfData()
Cached(db, s) ==
    [sacredGeometryId |-> db.users[s].sacredGeometryId,
     sacredGeometryInvite |-> db.users[s].sacredGeometryInvite]

Op(op, s, t, g) ==
    [op |-> op, s |-> s, t |-> t, g |-> g,
     pre |-> IF g = NoId THEN NoGeometry ELSE sacredGeometry[g]]

Commit(db, s, op) ==
    /\ users' = db.users
    /\ sacredGeometry' = db.sacredGeometry
    /\ selfData' = [selfData EXCEPT ![s] = Cached(db, s)]
    /\ lastOp' = op
    /\ UNCHANGED otherVars

onCreateSacredGeometry(s, t, limit) ==
    /\ s # t
    /\ selfData[s].sacredGeometryId = NoId
    /\ nextGeometryId <= limit
    /\ createSucceeds(Store, s, t)
    /\ Commit(createSacredGeometry(Store, s, t, nextGeometryId), s,
              Op("create", s, t, nextGeometryId))
    /\ nextGeometryId' = nextGeometryId + 1
    /\ UNCHANGED pc

onAcceptSacredGeometry(s) ==
    /\ selfData[s].sacredGeometryInvite # NoId
    /\ Commit(acceptSacredGeometryInvite(Store, s, selfData[s].sacredGeometryInvite), s,
              Op("accept", s, NoId, selfData[s].sacredGeometryInvite))
    /\ UNCHANGED <<nextGeometryId, pc>>

onDeclineSacredGeometry(s) ==
    /\ users[s].sacredGeometryInvite # NoId
    /\ Commit(declineSacredGeometryInvite(Store, s), s,
              Op("decline", s, NoId, users[s].sacredGeometryInvite))
    /\ UNCHANGED <<nextGeometryId, pc>>

onLeaveSacredGeometry(s) ==
    /\ users[s].sacredGeometryId # NoId
    /\ Commit(leaveSacredGeometry(Store, s), s,
              Op("leave", s, NoId, users[s].sacredGeometryId))
    /\ UNCHANGED <<nextGeometryId, pc>>

\* joinBtn.onclick of the info modal, which onSacredGeometryClicked opens for an
\* existing geometry g and which disables the button for a member of g
onJoinClicked(s, g) ==
    /\ GeometryExists(Store, g)
    /\ selfData[s].sacredGeometryId # g
    /\ CurrentTotal(sacredGeometry[g]) < MaxTotal
    /\ LET isInAnotherGeometry == selfData[s].sacredGeometryId # NoId
           d1 == IF isInAnotherGeometry THEN leaveSacredGeometry(Store, s) ELSE Store
       IN Commit(joinSacredGeometry(d1, s, g), s, Op("join", s, NoId, g))
    /\ UNCHANGED <<nextGeometryId, pc>>

\* updateConnections(): this.firebase.getSelfData().then(selfData => this.selfData = selfData)
RefreshSelfData(s) ==
    /\ UserExists(Store, s)
    /\ selfData[s] # Cached(Store, s)
    /\ selfData' = [selfData EXCEPT ![s] = Cached(Store, s)]
    /\ lastOp' = Op("refresh", s, NoId, NoId)
    /\ UNCHANGED <<users, sacredGeometry, nextGeometryId, pc>>
    /\ UNCHANGED otherVars

(* --------------------------- specification ----------------------------- *)
StartTime == StaleMs + HeartbeatMs

\* FirebaseSync after connect(): userRef set, both timers running, listeners on
Running == [userRef |-> TRUE, timers |-> TRUE, listening |-> TRUE]
Fresh == [userRef |-> FALSE, timers |-> FALSE, listening |-> FALSE]

Connected(i) == [NoUser EXCEPT !.intention = i, !.position = "pos", !.lastSeen = StartTime]

Init ==
    /\ users \in [Sessions -> {Connected(i) : i \in Intentions}]
    /\ sacredGeometry = [g \in GeomIds |-> NoGeometry]
    /\ selfData = [s \in Sessions |-> [sacredGeometryId |-> NoId, sacredGeometryInvite |-> NoId]]
    /\ nextGeometryId = 1
    /\ pc = [s \in Sessions |-> Idle]
    /\ now = StartTime
    /\ others = 0
    /\ client = [s \in Sessions |-> Running]
    /\ hooks = Sessions
    /\ lastOp = [op |-> "init", s |-> NoId, t |-> NoId, g |-> NoId, pre |-> NoGeometry]
    /\ appUsers = NoAppUsers
    /\ appOrder = <<>>
    /\ shapes = NoShapes
    /\ connections = NoConnections

GroupStep(limit) ==
    \/ \E s, t \in Sessions : onCreateSacredGeometry(s, t, limit)
    \/ \E s \in Sessions : onAcceptSacredGeometry(s)
    \/ \E s \in Sessions : onLeaveSacredGeometry(s)
    \/ \E s \in Sessions, g \in GeomIds : onJoinClicked(s, g)
    \/ \E s \in Sessions : RefreshSelfData(s)

Next ==
    \/ GroupStep(MaxGeoms)
    \/ \E s \in Sessions : onDeclineSacredGeometry(s)

Spec == Init /\ [][Next]_vars

\* create, accept, join and leave only, with two geometry ids
NextTwoGroups == GroupStep(MaxGeomsTwo)

SpecTwoGroups == Init /\ [][NextTwoGroups]_vars

(* ------------------------- sessions and presence ----------------------- *)
\* snapshot.numChildren() of /users
NumChildren == others + Cardinality({s \in Sessions : UserExists(Store, s)})

\* checkCapacity().canConnect
canConnect_atMax(count) == ~(count > MAX_CONNECTIONS)
canConnect(count) == ~(count >= MAX_CONNECTIONS)

\* connect(initialData) of a client that has no session yet; the record is
\* written with set(), the hook with onDisconnect().remove(), then
\* startHeartbeat() and setupListeners() run
connect(s, i) ==
    /\ ~client[s].userRef
    /\ LET count == NumChildren
       IN /\ lastOp' = [op |-> "connect", s |-> s, count |-> count, ok |-> canConnect(count)]
          /\ IF canConnect(count)
             THEN /\ users' = [users EXCEPT ![s] = [Connected(i) EXCEPT !.lastSeen = now]]
                  /\ hooks' = hooks \cup {s}
                  /\ client' = [client EXCEPT ![s] = Running]
             ELSE UNCHANGED <<users, hooks, client>>
    /\ UNCHANGED <<sacredGeometry, selfData, nextGeometryId, pc, now, others>>
    /\ UNCHANGED appVars

\* the 30 s timer: userRef.update({lastSeen: TIMESTAMP})
heartbeat(s) ==
    /\ client[s].timers
    /\ client[s].userRef
    /\ users[s].lastSeen # now
    /\ users' = UpdateUser(Store, s, [lastSeen |-> now]).users
    /\ lastOp' = [op |-> "heartbeat", s |-> NoId]
    /\ UNCHANGED <<sacredGeometry, selfData, nextGeometryId, pc, now, others, client, hooks>>
    /\ UNCHANGED appVars

\* userData.lastSeen || 0, compared with Date.now() - 2 * 60 * 1000
IsStale_orEqual(userData, time) == userData.lastSeen <= time - StaleMs
IsStale_twice(userData, time) == userData.lastSeen < time - 2 * StaleMs
IsStale(userData, time) == userData.lastSeen < time - StaleMs

\* the snapshot entries cleanupStaleUsers() removes
StaleUsers(c) ==
    {u \in Sessions : u # c /\ UserExists(Store, u) /\ IsStale(users[u], now)}

\* the 60 s timer and the call at the end of startHeartbeat()
cleanupStaleUsers(c) ==
    /\ client[c].timers
    /\ users' = [u \in Sessions |-> IF u \in StaleUsers(c) THEN NoUser ELSE users[u]]
    /\ lastOp' = [op |-> "sweep", s |-> c, removed |-> StaleUsers(c)]
    /\ UNCHANGED <<sacredGeometry, selfData, nextGeometryId, pc, now, others, client, hooks>>
    /\ UNCHANGED appVars

\* disconnect(): stopHeartbeat(), usersRef.off(), userRef.remove()
disconnect(s) ==
    /\ client[s].userRef
    /\ client[s].timers
    /\ client' = [client EXCEPT ![s] = [userRef |-> TRUE, timers |-> FALSE, listening |-> FALSE]]
    /\ users' = [users EXCEPT ![s] = NoUser]
    /\ lastOp' = [op |-> "disconnect", s |-> NoId]
    /\ UNCHANGED <<sacredGeometry, selfData, nextGeometryId, pc, now, others, hooks>>
    /\ UNCHANGED appVars

\* the tab of a client is killed and the store never runs its hook: the timers
\* and listeners are gone, the record stays
Vanish(s) ==
    /\ client[s].timers
    /\ client' = [client EXCEPT ![s] = [userRef |-> TRUE, timers |-> FALSE, listening |-> FALSE]]
    /\ hooks' = hooks \ {s}
    /\ lastOp' = [op |-> "vanish", s |-> NoId]
    /\ UNCHANGED <<users, sacredGeometry, selfData, nextGeometryId, pc, now, others>>
    /\ UNCHANGED appVars

\* a client that is not modelled one by one connects or goes away
OtherConnects ==
    /\ canConnect(NumChildren)
    /\ others' = others + 1
    /\ lastOp' = [op |-> "otherConnects", s |-> NoId]
    /\ UNCHANGED <<users, sacredGeometry, selfData, nextGeometryId, pc, now, client, hooks>>
    /\ UNCHANGED appVars

OtherLeaves ==
    /\ others > MAX_CONNECTIONS - MaxFree
    /\ others' = others - 1
    /\ lastOp' = [op |-> "otherLeaves", s |-> NoId]
    /\ UNCHANGED <<users, sacredGeometry, selfData, nextGeometryId, pc, now, client, hooks>>
    /\ UNCHANGED appVars

\* time passes
Advance ==
    /\ now < StartTime + MaxTicks * HeartbeatMs
    /\ now' = now + HeartbeatMs
    /\ lastOp' = [op |-> "advance", s |-> NoId]
    /\ UNCHANGED <<users, sacredGeometry, selfData, nextGeometryId, pc, others, client, hooks>>
    /\ UNCHANGED appVars

\* no client has connected; free is the number of places that are left
InitClients(free) ==
    /\ users = [s \in Sessions |-> NoUser]
    /\ sacredGeometry = [g \in GeomIds |-> NoGeometry]
    /\ selfData = [s \in Sessions |-> [sacredGeometryId |-> NoId, sacredGeometryInvite |-> NoId]]
    /\ nextGeometryId = 1
    /\ pc = [s \in Sessions |-> Idle]
    /\ now = StartTime
    /\ others = MAX_CONNECTIONS - free
    /\ client = [s \in Sessions |-> Fresh]
    /\ hooks = {}
    /\ lastOp = [op |-> "init", s |-> NoId]
    /\ appUsers = NoAppUsers
    /\ appOrder = <<>>
    /\ shapes = NoShapes
    /\ connections = NoConnections

\* heartbeats and sweeps while time passes, far from the capacity limit
InitPresence == InitClients(MAX_CONNECTIONS)

NextPresence ==
    \/ \E s \in Sessions : connect(s, DefaultIntention)
    \/ \E s \in Sessions : heartbeat(s)
    \/ \E s \in Sessions : cleanupStaleUsers(s)
    \/ \E s \in Sessions : disconnect(s)
    \/ \E s \in Sessions : Vanish(s)
    \/ Advance

SpecPresence == InitPresence /\ [][NextPresence]_vars

\* connects and departures around the capacity limit
InitCapacity == InitClients(MaxFree)

NextCapacity ==
    \/ \E s \in Sessions : connect(s, DefaultIntention)
    \/ \E s \in Sessions : disconnect(s)
    \/ \E s \in Sessions : Vanish(s)
    \/ OtherConnects
    \/ OtherLeaves

SpecCapacity == InitCapacity /\ [][NextCapacity]_vars

(* ------------------ updateGeometryMainIntention alone ------------------ *)
\* the member entries a geometry can hold
MemberEntries ==
    {NoMember} \cup [intention : Intentions, pending : BOOLEAN]

GeometryInputs ==
    {[createdBy |-> 1, center |-> "mid", mainIntention |-> i,
      totalMembersEver |-> MaxMembers, members |-> m] :
        i \in Intentions, m \in [1..MaxMembers -> MemberEntries]}

InitMainIntention ==
    /\ users = [s \in Sessions |-> NoUser]
    /\ sacredGeometry \in [{1} -> GeometryInputs]
    /\ selfData = [s \in Sessions |-> [sacredGeometryId |-> NoId, sacredGeometryInvite |-> NoId]]
    /\ nextGeometryId = 2
    /\ pc = [s \in Sessions |-> Idle]
    /\ now = StartTime
    /\ others = 0
    /\ client = [s \in Sessions |-> Fresh]
    /\ hooks = {}
    /\ lastOp = [op |-> "init", s |-> NoId, t |-> NoId, g |-> NoId, pre |-> NoGeometry]
    /\ appUsers = NoAppUsers
    /\ appOrder = <<>>
    /\ shapes = NoShapes
    /\ connections = NoConnections

Recompute ==
    /\ sacredGeometry' = updateGeometryMainIntention(Store, 1).sacredGeometry
    /\ lastOp' = Op("recompute", NoId, NoId, 1)
    /\ UNCHANGED <<users, selfData, nextGeometryId, pc>>
    /\ UNCHANGED otherVars

SpecMainIntention == InitMainIntention /\ [][Recompute]_vars

(* ------------------------- resonance connections ----------------------- *)
\* the client whose HypnoApp is followed: this.selfId = firebase.getSessionId()
selfId == 1

\* Array.prototype.includes, indexOf (0 when absent) and splice(index, 1)
Includes(arr, x) == \E i \in 1..Len(arr) : arr[i] = x
IndexOf(arr, x) ==
    IF Includes(arr, x)
    THEN CHOOSE i \in 1..Len(arr) : arr[i] = x /\ \A j \in 1..(i - 1) : arr[j] # x
    ELSE 0
Splice(arr, index) == SubSeq(arr, 1, index - 1) \o SubSeq(arr, index + 1, Len(arr))

\* FirebaseSync: the resonatingWith child is read (an absent child reads as
\* []), and an empty array written with update() leaves no child behind
isResonatingWith(db, s, t) == Includes(db.users[s].resonatingWith, t)

addResonance(db, s, t) ==
    LET currentResonance == db.users[s].resonatingWith
    IN IF Includes(currentResonance, t) THEN db
       ELSE UpdateUser(db, s, [resonatingWith |-> Append(currentResonance, t)])

removeResonance(db, s, t) ==
    LET currentResonance == db.users[s].resonatingWith
        index == IndexOf(currentResonance, t)
    IN IF index = 0 THEN db
       ELSE UpdateUser(db, s, [resonatingWith |-> Splice(currentResonance, index)])

\* Map.set and Map.delete on the keys in insertion order
MapSet(order, key) == IF Includes(order, key) THEN order ELSE Append(order, key)
MapDelete(order, key) == SelectSeq(order, LAMBDA k : k # key)

\* the client state the handlers work on
App == [users |-> appUsers, order |-> appOrder, shapes |-> shapes, connections |-> connections,
        ran |-> FALSE, allUsers |-> NoAppUsers, active |-> {}]

\* ConnectionManager.createConnection: this.users is the scene's map of shapes
createConnection(conns, shp, fromId, toId) ==
    IF shp[fromId] = "none" \/ shp[toId] = "none" THEN conns
    ELSE [conns EXCEPT ![getConnectionId(fromId, toId)] =
            [inMap |-> TRUE, isMutual |-> FALSE, isDisposing |-> FALSE]]

\* targetData?.resonatingWith?.includes(userId); undefined counts as not mutual
IsMutual(targetData, userId) == Includes(targetData.resonatingWith, userId)

\* ConnectionThread.setMutual
setMutual(thread, isMutual) == [thread EXCEPT !.isMutual = isMutual]

\* the body of userData.resonatingWith.forEach(targetId => ...); st holds the
\* connections and the set activeConnections
VisitTarget_anyTarget(st, allUsers, shp, userId, targetId) ==
    LET connId == getConnectionId(userId, targetId)
        c1 == IF ~st.connections[connId].inMap
              THEN createConnection(st.connections, shp, userId, targetId)
              ELSE st.connections
        c2 == IF c1[connId].inMap
              THEN [c1 EXCEPT ![connId] = setMutual(@, IsMutual(allUsers[targetId], userId))]
              ELSE c1
    IN [connections |-> c2, active |-> st.active \cup {connId}]
VisitTarget(st, allUsers, shp, userId, targetId) ==
    IF allUsers[targetId] = NoUser THEN st
    ELSE LET connId == getConnectionId(userId, targetId)
             c1 == IF ~st.connections[connId].inMap
                   THEN createConnection(st.connections, shp, userId, targetId)
                   ELSE st.connections
             c2 == IF c1[connId].inMap
                   THEN [c1 EXCEPT ![connId] = setMutual(@, IsMutual(allUsers[targetId], userId))]
                   ELSE c1
         IN [connections |-> c2, active |-> st.active \cup {connId}]

RECURSIVE VisitTargets(_, _, _, _, _)
VisitTargets(st, allUsers, shp, userId, k) ==
    IF k = 0 THEN st
    ELSE LET prev == VisitTargets(st, allUsers, shp, userId, k - 1)
         IN VisitTarget(prev, allUsers, shp, userId, allUsers[userId].resonatingWith[k])

\* allUsers.forEach in the order of the Map, given as a sequence of ids
RECURSIVE VisitUsers(_, _, _, _, _)
VisitUsers(st, allUsers, shp, order, k) ==
    IF k = 0 THEN st
    ELSE LET prev == VisitUsers(st, allUsers, shp, order, k - 1)
             userId == order[k]
         IN IF allUsers[userId] = NoUser THEN prev
            ELSE VisitTargets(prev, allUsers, shp, userId,
                              Len(allUsers[userId].resonatingWith))

\* ConnectionManager.removeConnection: the thread fades and stays in the map
\* until the fade completes
removeConnection(thread) == [thread EXCEPT !.isDisposing = TRUE]

\* ConnectionManager.updateConnections(allUsers, selfId)
managerUpdateConnections(conns, shp, allUsers, order) ==
    LET st == VisitUsers([connections |-> conns, active |-> {}], allUsers, shp,
                         order, Len(order))
    IN [connections |->
            [c \in ConnIds |->
                IF st.connections[c].inMap /\ c \notin st.active
                THEN removeConnection(st.connections[c]) ELSE st.connections[c]],
        active |-> st.active]

\* HypnoApp.updateConnections: the recomputation runs once getSelfData() has
\* delivered a record, with the own record put into the map
updateConnections(app, db) ==
    LET sd == getSelfData(db, selfId)
        allUsers == [app.users EXCEPT ![selfId] = sd]
        done == managerUpdateConnections(app.connections, app.shapes, allUsers,
                                         MapSet(app.order, selfId))
    IN IF sd = NoUser THEN app
       ELSE [app EXCEPT !.connections = done.connections,
                        !.ran = TRUE, !.allUsers = allUsers, !.active = done.active]

\* HypnoApp.updateUser, CosmicScene.updateUser
updateUser(app, db, userId, userData) ==
    updateConnections([app EXCEPT !.users[userId] = userData,
                                  !.order = MapSet(@, userId)], db)

\* HypnoApp.addUser, CosmicScene.addUser
addUser(app, db, userId, userData) ==
    IF userId = selfId THEN app
    ELSE IF app.users[userId] # NoUser THEN updateUser(app, db, userId, userData)
    ELSE IF app.shapes[userId] # "none" THEN app
    ELSE updateConnections([app EXCEPT !.users[userId] = userData,
                                       !.order = MapSet(@, userId),
                                       !.shapes[userId] = "shown"], db)

\* HypnoApp.removeUser, CosmicScene.removeUser: the shape fades and stays in
\* the scene's map until the fade completes
removeUser(app, db, userId) ==
    updateConnections([app EXCEPT !.users[userId] = NoUser,
                                  !.order = MapDelete(@, userId),
                                  !.shapes[userId] = IF @ = "none" THEN "none" ELSE "fading"],
                      db)

\* setupListeners: the event a write to /users/<s> raises at the client, by
\* the record before and after; child_added is not passed on for the own id
Callback(before, after, s) ==
    IF before = after THEN "none"
    ELSE IF before = NoUser
         THEN (IF s = selfId THEN "none" ELSE "onUserAdded")
    ELSE IF after = NoUser THEN "onUserRemoved"
    ELSE "onUserChanged"

Deliver(app, before, db, s) ==
    LET after == db.users[s]
        callback == Callback(before, after, s)
    IN IF callback = "onUserAdded" THEN addUser(app, db, s, after)
       ELSE IF callback = "onUserRemoved" THEN removeUser(app, db, s)
       ELSE IF callback = "onUserChanged" THEN updateUser(app, db, s, after)
       ELSE app

\* a write that changed the store to db, and the event it raises at the client
Written(db, s, op) ==
    LET app == Deliver(App, users[s], db, s)
    IN /\ users' = db.users
       /\ appUsers' = app.users
       /\ appOrder' = app.order
       /\ shapes' = app.shapes
       /\ connections' = app.connections
       /\ lastOp' = [op |-> op, s |-> s, ran |-> app.ran, allUsers |-> app.allUsers,
                     active |-> app.active]
       /\ UNCHANGED <<sacredGeometry, selfData, nextGeometryId, pc, now, others, client>>

\* the number of resonatingWith entries of the sessions 1..k
RECURSIVE EdgeCount(_)
EdgeCount(k) == IF k = 0 THEN 0 ELSE EdgeCount(k - 1) + Len(users[k].resonatingWith)

\* the fades of shapes and threads that have not completed
PendingFades ==
    Cardinality({u \in Sessions : shapes[u] = "fading"})
        + Cardinality({c \in ConnIds : connections[c].inMap /\ connections[c].isDisposing})

\* UIManager.toggleResonance of client s with the user menu open on t; the menu
\* opens for an id the client's users map holds
toggleResonance(s, t) ==
    /\ s # t
    /\ PendingFades <= MaxFading
    /\ isResonatingWith(Store, s, t) \/ EdgeCount(NumSessions) < MaxEdges
    /\ client[s].userRef
    /\ IF s = selfId THEN appUsers[t] # NoUser ELSE UserExists(Store, t)
    /\ Written(IF isResonatingWith(Store, s, t) THEN removeResonance(Store, s, t)
               ELSE addResonance(Store, s, t), s, "toggle")
    /\ UNCHANGED hooks

\* the connection of client s drops and the store runs its onDisconnect hook;
\* the client itself keeps running
ConnectionLost(s) ==
    /\ PendingFades <= MaxFading
    /\ Cardinality(Sessions \ hooks) < MaxLost
    /\ s \in hooks
    /\ UserExists(Store, s)
    /\ Written([Store EXCEPT !.users[s] = NoUser], s, "lost")
    /\ hooks' = hooks \ {s}

\* the fade of a removed shape completes: this.users.delete(userId)
ShapeFadeDone(u) ==
    /\ shapes[u] = "fading"
    /\ shapes' = [shapes EXCEPT ![u] = "none"]
    /\ lastOp' = [op |-> "shapeGone", s |-> u, ran |-> FALSE, allUsers |-> NoAppUsers,
                 active |-> {}]
    /\ UNCHANGED <<users, sacredGeometry, selfData, nextGeometryId, pc, now, others,
                   client, hooks, appUsers, appOrder, connections>>

\* the fade of a removed thread completes: this.connections.delete(connId)
ThreadFadeDone(c) ==
    /\ connections[c].inMap
    /\ connections[c].isDisposing
    /\ connections' = [connections EXCEPT ![c] = NoThread]
    /\ lastOp' = [op |-> "threadGone", s |-> NoId, ran |-> FALSE, allUsers |-> NoAppUsers,
                 active |-> {}]
    /\ UNCHANGED <<users, sacredGeometry, selfData, nextGeometryId, pc, now, others,
                   client, hooks, appUsers, appOrder, shapes>>

\* onEnter: the sessions getAllUsers() returns are added in key order, the
\* own session after connect()
RECURSIVE KeyOrder(_)
KeyOrder(k) ==
    IF k = 0 THEN <<>>
    ELSE IF k = selfId THEN KeyOrder(k - 1) ELSE Append(KeyOrder(k - 1), k)
EntryOrder == Append(KeyOrder(NumSessions), selfId)

\* every client has connected and the client selfId has entered: onEnter has
\* added every session to its users map and to its scene
InitResonance ==
    /\ users = [s \in Sessions |-> Connected(DefaultIntention)]
    /\ sacredGeometry = [g \in GeomIds |-> NoGeometry]
    /\ selfData = [s \in Sessions |-> [sacredGeometryId |-> NoId, sacredGeometryInvite |-> NoId]]
    /\ nextGeometryId = 1
    /\ pc = [s \in Sessions |-> Idle]
    /\ now = StartTime
    /\ others = 0
    /\ client = [s \in Sessions |-> Running]
    /\ hooks = Sessions
    /\ appUsers = users
    /\ appOrder = EntryOrder
    /\ shapes = [u \in Sessions |-> "shown"]
    /\ connections = NoConnections
    /\ lastOp = [op |-> "init", s |-> NoId, ran |-> FALSE, allUsers |-> NoAppUsers,
                 active |-> {}]

NextResonance ==
    \/ \E s, t \in Sessions : toggleResonance(s, t)
    \/ \E s \in Sessions : ConnectionLost(s)
    \/ \E u \in Sessions : ShapeFadeDone(u)
    \/ \E c \in ConnIds : ThreadFadeDone(c)

SpecResonance == InitResonance /\ [][NextResonance]_vars

(* ---------------------- updates of the own attributes ------------------ *)
\* updateIntention(intention): if (!this.userRef) return; userRef.update(...)
updateIntention(s, i) ==
    /\ users' = IF client[s].userRef
                THEN UpdateUser(Store, s, [intention |-> i]).users ELSE users
    /\ lastOp' = [op |-> "update", s |-> s, connected |-> client[s].timers]
    /\ UNCHANGED <<sacredGeometry, selfData, nextGeometryId, pc, now, others, client, hooks>>
    /\ UNCHANGED appVars

\* updatePosition(x, y, z): if (!this.userRef) return; userRef.update of
\* position and lastSeen
updatePosition(s) ==
    /\ users' = IF client[s].userRef
                THEN UpdateUser(Store, s, [position |-> "pos", lastSeen |-> now]).users
                ELSE users
    /\ lastOp' = [op |-> "update", s |-> s, connected |-> client[s].timers]
    /\ UNCHANGED <<sacredGeometry, selfData, nextGeometryId, pc, now, others, client, hooks>>
    /\ UNCHANGED appVars

NextUpdate ==
    \/ \E s \in Sessions : connect(s, DefaultIntention)
    \/ \E s \in Sessions : disconnect(s)
    \/ \E s \in Sessions, i \in Intentions : updateIntention(s, i)
    \/ \E s \in Sessions : updatePosition(s)

SpecUpdate == InitPresence /\ [][NextUpdate]_vars

(* ------------------ ConnectionManager.updateConnections alone ----------- *)
\* the resonatingWith arrays addResonance() can build for session u: no id
\* twice, and toggleResonance() is not offered for the own id
ResonanceArrays(u) ==
    {q \in UNION {[1..n -> Sessions \ {u}] : n \in 0..MaxTargets} :
        \A i, j \in 1..Len(q) : q[i] = q[j] => i = j}

\* the maps of sessions the recomputation can be given: a session is absent
\* or carries one of these arrays
SessionMaps ==
    {m \in [Sessions -> {NoUser} \cup
                {[Connected(DefaultIntention) EXCEPT !.resonatingWith = q] :
                    q \in UNION {ResonanceArrays(u) : u \in Sessions}}] :
        \A u \in Sessions : ~Includes(m[u].resonatingWith, u)}

\* the keys of the map in ascending order
RECURSIVE PresentOrder(_, _)
PresentOrder(m, k) ==
    IF k = 0 THEN <<>>
    ELSE IF m[k] = NoUser THEN PresentOrder(m, k - 1)
    ELSE Append(PresentOrder(m, k - 1), k)

InitConnections ==
    /\ users \in SessionMaps
    /\ sacredGeometry = [g \in GeomIds |-> NoGeometry]
    /\ selfData = [s \in Sessions |-> [sacredGeometryId |-> NoId, sacredGeometryInvite |-> NoId]]
    /\ nextGeometryId = 1
    /\ pc = [s \in Sessions |-> Idle]
    /\ now = StartTime
    /\ others = 0
    /\ client = [s \in Sessions |-> Running]
    /\ hooks = Sessions
    /\ appUsers = users
    /\ appOrder = PresentOrder(users, NumSessions)
    /\ shapes = [u \in Sessions |-> IF users[u] = NoUser THEN "none" ELSE "shown"]
    /\ connections = NoConnections
    /\ lastOp = [op |-> "init", s |-> NoId, ran |-> FALSE, allUsers |-> NoAppUsers,
                 active |-> {}]

\* connectionManager.updateConnections(allUsers, this.selfId)
RecomputeConnections ==
    /\ lastOp.op = "init"
    /\ LET done == managerUpdateConnections(connections, shapes, appUsers, appOrder)
       IN /\ connections' = done.connections
          /\ lastOp' = [op |-> "updateConnections", s |-> NoId, ran |-> TRUE,
                        allUsers |-> appUsers, active |-> done.active]
    /\ UNCHANGED <<users, sacredGeometry, selfData, nextGeometryId, pc, now, others,
                   client, hooks, appUsers, appOrder, shapes>>

SpecConnections == InitConnections /\ [][RecomputeConnections]_vars

(* ------------- updateConnections on arrays that hold the own id -------- *)
\* the resonatingWith arrays addResonance(targetId) can build: it takes any
\* targetId, the own one too, and adds no id twice
ResonanceArraysAnyTarget ==
    {q \in UNION {[1..n -> Sessions] : n \in 0..MaxTargets} :
        \A i, j \in 1..Len(q) : q[i] = q[j] => i = j}

InitSelfResonance ==
    /\ users \in [Sessions -> {NoUser} \cup
                    {[Connected(DefaultIntention) EXCEPT !.resonatingWith = q] :
                        q \in ResonanceArraysAnyTarget}]
    /\ sacredGeometry = [g \in GeomIds |-> NoGeometry]
    /\ selfData = [s \in Sessions |-> [sacredGeometryId |-> NoId, sacredGeometryInvite |-> NoId]]
    /\ nextGeometryId = 1
    /\ pc = [s \in Sessions |-> Idle]
    /\ now = StartTime
    /\ others = 0
    /\ client = [s \in Sessions |-> Running]
    /\ hooks = Sessions
    /\ appUsers = users
    /\ appOrder = PresentOrder(users, NumSessions)
    /\ shapes = [u \in Sessions |-> IF users[u] = NoUser THEN "none" ELSE "shown"]
    /\ connections = NoConnections
    /\ lastOp = [op |-> "init", s |-> NoId, ran |-> FALSE, allUsers |-> NoAppUsers,
                 active |-> {}]

SpecSelfResonance == InitSelfResonance /\ [][RecomputeConnections]_vars

(* --------------- updateConnections called again and again -------------- *)
\* HypnoApp.updateConnections after a change of resonatingWith arrays: the
\* manager is given the map m of the same sessions
RecomputeWith(m) ==
    /\ \A u \in Sessions : (m[u] = NoUser) <=> (appUsers[u] = NoUser)
    /\ LET done == managerUpdateConnections(connections, shapes, m, appOrder)
       IN /\ connections' = done.connections
          /\ lastOp' = [op |-> "updateConnections", s |-> NoId, ran |-> TRUE,
                        allUsers |-> m, active |-> done.active]
    /\ users' = m
    /\ appUsers' = m
    /\ UNCHANGED <<sacredGeometry, selfData, nextGeometryId, pc, now, others,
                   client, hooks, appOrder, shapes>>

NextRecompute ==
    \/ \E m \in SessionMaps : RecomputeWith(m)
    \/ \E c \in ConnIds : ThreadFadeDone(c)

SpecRecompute == InitConnections /\ [][NextRecompute]_vars

(* ----------------------- connect(), await by await --------------------- *)
\* connect() up to the return of checkCapacity(): the count is read with
\* usersRef.once('value'); a refused caller throws and has written nothing
checkCapacity(s) ==
    /\ ~client[s].userRef
    /\ pc[s] = Idle
    /\ LET count == NumChildren
       IN /\ pc' = [pc EXCEPT ![s] = IF canConnect(count)
                                     THEN [at |-> "connect", g |-> NoId,
                                           currentTotal |-> count]
                                     ELSE Idle]
          /\ lastOp' = [op |-> "checkCapacity", s |-> s, count |-> count,
                        before |-> count]
    /\ UNCHANGED <<users, sacredGeometry, selfData, nextGeometryId, now, others,
                   client, hooks>>
    /\ UNCHANGED appVars

\* connect() after the check: userRef.set(userData), the onDisconnect hook,
\* startHeartbeat() and setupListeners(); the count is not read again
connectSet(s, i) ==
    /\ pc[s].at = "connect"
    /\ users' = [users EXCEPT ![s] = [Connected(i) EXCEPT !.lastSeen = now]]
    /\ hooks' = hooks \cup {s}
    /\ client' = [client EXCEPT ![s] = Running]
    /\ pc' = [pc EXCEPT ![s] = Idle]
    /\ lastOp' = [op |-> "connectSet", s |-> s, count |-> pc[s].currentTotal,
                  before |-> NumChildren]
    /\ UNCHANGED <<sacredGeometry, selfData, nextGeometryId, now, others>>
    /\ UNCHANGED appVars

NextConnectSteps ==
    \/ \E s \in Sessions : checkCapacity(s)
    \/ \E s \in Sessions : connectSet(s, DefaultIntention)
    \/ \E s \in Sessions : disconnect(s)
    \/ OtherConnects
    \/ OtherLeaves

SpecConnectSteps == InitCapacity /\ [][NextConnectSteps]_vars

(* ------------- addResonance and removeResonance, await by await -------- *)
\* addResonance(targetId) after its read: currentResonance is the array the
\* snapshot returned
addResonanceWrite(db, s, t, currentResonance) ==
    IF Includes(currentResonance, t) THEN db
    ELSE UpdateUser(db, s, [resonatingWith |-> Append(currentResonance, t)])

\* removeResonance(targetId) after its read
removeResonanceWrite(db, s, t, currentResonance) ==
    LET index == IndexOf(currentResonance, t)
    IN IF index = 0 THEN db
       ELSE UpdateUser(db, s, [resonatingWith |-> Splice(currentResonance, index)])

\* lastOp.last[t] is the last call for target t that has completed
Completed(method, t) ==
    [op |-> method, s |-> selfId, last |-> [lastOp.last EXCEPT ![t] = method]]

\* a call of the client selfId up to the return of
\* userRef.child('resonatingWith').once('value')
ResonanceRead(method, t) ==
    /\ t # selfId
    /\ pc[selfId].at = "idle"
    /\ pc' = [pc EXCEPT ![selfId] =
                [at |-> method, targetId |-> t,
                 currentResonance |-> users[selfId].resonatingWith]]
    /\ lastOp' = [lastOp EXCEPT !.op = "read"]
    /\ UNCHANGED <<users, sacredGeometry, selfData, nextGeometryId>>
    /\ UNCHANGED otherVars

\* the rest of that call: the array it read is changed and written back
ResonanceWrite ==
    /\ pc[selfId].at \in {"addResonance", "removeResonance"}
    /\ LET t == pc[selfId].targetId
           cur == pc[selfId].currentResonance
       IN /\ users' = IF pc[selfId].at = "addResonance"
                      THEN addResonanceWrite(Store, selfId, t, cur).users
                      ELSE removeResonanceWrite(Store, selfId, t, cur).users
          /\ lastOp' = Completed(pc[selfId].at, t)
    /\ pc' = [pc EXCEPT ![selfId] = Idle]
    /\ UNCHANGED <<sacredGeometry, selfData, nextGeometryId>>
    /\ UNCHANGED otherVars

\* a second call of the same client that reads and writes while the first one
\* waits for its snapshot (or while none is waiting)
ResonanceCall(method, t) ==
    /\ t # selfId
    /\ users' = IF method = "addResonance" THEN addResonance(Store, selfId, t).users
                ELSE removeResonance(Store, selfId, t).users
    /\ lastOp' = Completed(method, t)
    /\ UNCHANGED <<sacredGeometry, selfData, nextGeometryId, pc>>
    /\ UNCHANGED otherVars

InitResonanceCalls ==
    /\ users = [s \in Sessions |-> Connected(DefaultIntention)]
    /\ sacredGeometry = [g \in GeomIds |-> NoGeometry]
    /\ selfData = [s \in Sessions |-> [sacredGeometryId |-> NoId, sacredGeometryInvite |-> NoId]]
    /\ nextGeometryId = 1
    /\ pc = [s \in Sessions |-> Idle]
    /\ now = StartTime
    /\ others = 0
    /\ client = [s \in Sessions |-> Running]
    /\ hooks = Sessions
    /\ lastOp = [op |-> "init", s |-> NoId, last |-> [t \in Sessions |-> "none"]]
    /\ appUsers = NoAppUsers
    /\ appOrder = <<>>
    /\ shapes = NoShapes
    /\ connections = NoConnections

NextResonanceCalls ==
    \/ \E m \in {"addResonance", "removeResonance"}, t \in Sessions : ResonanceRead(m, t)
    \/ ResonanceWrite
    \/ \E m \in {"addResonance", "removeResonance"}, t \in Sessions : ResonanceCall(m, t)

SpecResonanceCalls == InitResonanceCalls /\ [][NextResonanceCalls]_vars

(* -------------------- createSacredGeometry and its cache --------------- *)
\* the store runs the hooks a client registered with onDisconnect(): the one
\* of connect() on its record, the ones of createSacredGeometry() on its member
\* entries
RunHooks(db, s) ==
    [users |-> [db.users EXCEPT ![s] = NoUser],
     sacredGeometry |->
        [g \in GeomIds |->
            IF db.sacredGeometry[g].createdBy = s
            THEN [db.sacredGeometry[g] EXCEPT !.members[s] = NoMember]
            ELSE db.sacredGeometry[g]]]

\* the connection of a client drops and comes back: its hooks have run, the
\* client itself goes on
HooksFire(s) ==
    /\ s \in hooks
    /\ hooks' = hooks \ {s}
    /\ users' = RunHooks(Store, s).users
    /\ sacredGeometry' = RunHooks(Store, s).sacredGeometry
    /\ lastOp' = [op |-> "hooks", s |-> NoId]
    /\ UNCHANGED <<selfData, nextGeometryId, pc, now, others, client>>
    /\ UNCHANGED appVars

\* onCreateSacredGeometry() up to the return of createSacredGeometry(): the
\* guard reads this.selfData, the assignment to this.selfData comes after two
\* more awaits and is the step RefreshSelfData
CreateCall(s, t) ==
    /\ s # t
    /\ selfData[s].sacredGeometryId = NoId
    /\ nextGeometryId <= MaxGeomsTwo
    /\ LET db == createSacredGeometry(Store, s, t, nextGeometryId)
       IN /\ users' = db.users
          /\ sacredGeometry' = db.sacredGeometry
          /\ nextGeometryId' = IF createSucceeds(Store, s, t)
                               THEN nextGeometryId + 1 ELSE nextGeometryId
          /\ UNCHANGED pc
          /\ lastOp' = [op |-> "createSacredGeometry", s |-> s, t |-> t,
                        g |-> nextGeometryId,
                        ok |-> createSucceeds(Store, s, t),
                        selfData |-> getSelfData(Store, s) # NoUser,
                        targetData |-> UserExists(Store, t),
                        sacredGeometryId |-> users[s].sacredGeometryId,
                        wrote |-> db # Store]
    /\ UNCHANGED <<selfData, now, others, client, hooks>>
    /\ UNCHANGED appVars

\* every client has connected with the default intention
InitCreate ==
    /\ users = [s \in Sessions |-> Connected(DefaultIntention)]
    /\ sacredGeometry = [g \in GeomIds |-> NoGeometry]
    /\ selfData = [s \in Sessions |-> [sacredGeometryId |-> NoId, sacredGeometryInvite |-> NoId]]
    /\ nextGeometryId = 1
    /\ pc = [s \in Sessions |-> Idle]
    /\ now = StartTime
    /\ others = 0
    /\ client = [s \in Sessions |-> Running]
    /\ hooks = Sessions
    /\ lastOp = [op |-> "init", s |-> NoId]
    /\ appUsers = NoAppUsers
    /\ appOrder = <<>>
    /\ shapes = NoShapes
    /\ connections = NoConnections

NextCreate ==
    \/ \E s, t \in Sessions : CreateCall(s, t)
    \/ \E s \in Sessions : RefreshSelfData(s)
    \/ \E s \in Sessions : HooksFire(s)

SpecCreate == InitCreate /\ [][NextCreate]_vars

(* ------------------------------ disconnect() --------------------------- *)
\* a disconnect() of a client whose disconnect() has completed before:
\* stopHeartbeat() finds no timer, usersRef.off(), userRef.remove()
disconnectAgain(s) ==
    /\ client[s].userRef
    /\ ~client[s].timers
    /\ client' = [client EXCEPT ![s] = [userRef |-> TRUE, timers |-> FALSE, listening |-> FALSE]]
    /\ users' = [users EXCEPT ![s] = NoUser]
    /\ lastOp' = [op |-> "disconnectAgain", s |-> s]
    /\ UNCHANGED <<sacredGeometry, selfData, nextGeometryId, pc, now, others, hooks>>
    /\ UNCHANGED appVars

\* the listeners of setupListeners() are on /users from connect() until
\* usersRef.off(): a step that changes a child of /users calls onUserAdded,
\* onUserChanged or onUserRemoved and onActiveUserCountChanged at client s
FeedCallbackAt(s) ==
    /\ client[s].listening
    /\ users' # users

\* the listeners of setupSacredGeometryListeners() are put on /sacredGeometry
\* by onEnter() after connect(); no method takes them off: a step that changes
\* a child of /sacredGeometry calls onSacredGeometryCreated, -Updated or
\* -Removed at client s
GeometryCallbackAt(s) ==
    /\ client[s].userRef
    /\ sacredGeometry' # sacredGeometry

NextTeardown ==
    \/ \E s, t \in Sessions : onCreateSacredGeometry(s, t, MaxGeoms)
    \/ \E s \in Sessions : onLeaveSacredGeometry(s)
    \/ \E s \in Sessions : cleanupStaleUsers(s)
    \/ \E s \in Sessions : disconnect(s)
    \/ \E s \in Sessions : disconnectAgain(s)

SpecTeardown == InitCreate /\ [][NextTeardown]_vars

(* ------------------- joinSacredGeometry, await by await ---------------- *)
\* joinSacredGeometry after the read of the geometry: the member entry, then
\* totalMembersEver: currentTotal + 1, the main intention and the own record
joinSacredGeometryWrites(db, s, g, currentTotal) ==
    LET selfRec == getSelfData(db, s)
        d1 == SetMember(db, g, s, [intention |-> selfRec.intention, pending |-> FALSE])
        d2 == UpdateGeometry(d1, g, [totalMembersEver |-> currentTotal + 1])
        d3 == updateGeometryMainIntention(d2, g)
    IN UpdateUser(d3, s, [sacredGeometryId |-> g])

\* joinBtn.onclick up to the read in joinSacredGeometry: getSelfData() and
\* geometryRef.once('value') have returned, currentTotal is computed
JoinRead(s, g) ==
    /\ pc[s] = Idle
    /\ GeometryExists(Store, g)
    /\ selfData[s].sacredGeometryId = NoId
    /\ getSelfData(Store, s) # NoUser
    /\ CurrentTotal(sacredGeometry[g]) < MaxTotal
    /\ pc' = [pc EXCEPT ![s] = [at |-> "joinRead", g |-> g,
                                currentTotal |-> CurrentTotal(sacredGeometry[g])]]
    /\ lastOp' = Op("joinRead", s, NoId, g)
    /\ UNCHANGED <<users, sacredGeometry, selfData, nextGeometryId>>
    /\ UNCHANGED otherVars

\* the writes of that joinSacredGeometry call and the handler's
\* this.selfData = await getSelfData()
JoinWrite(s) ==
    /\ pc[s].at = "joinRead"
    /\ Commit(joinSacredGeometryWrites(Store, s, pc[s].g, pc[s].currentTotal), s,
              Op("joinWrite", s, NoId, pc[s].g))
    /\ pc' = [pc EXCEPT ![s] = Idle]
    /\ UNCHANGED nextGeometryId

NextJoin ==
    \/ \E s, t \in Sessions : onCreateSacredGeometry(s, t, MaxGeoms)
    \/ \E s \in Sessions : onLeaveSacredGeometry(s)
    \/ \E s \in Sessions, g \in GeomIds : JoinRead(s, g)
    \/ \E s \in Sessions : JoinWrite(s)

SpecJoin == InitCreate /\ [][NextJoin]_vars

(* ---------------------- sweeps while time passes ----------------------- *)
\* a client whose process has ended without its hook having run
Vanished(s) == client[s].userRef /\ ~client[s].timers /\ s \notin hooks

\* one heartbeat period passes; the 30 s timer of every running client has
\* fired in the period that ends
Tick ==
    /\ \A s \in Sessions :
            client[s].timers /\ UserExists(Store, s) => users[s].lastSeen = now
    /\ Advance

NextSweep ==
    \/ \E s \in Sessions : heartbeat(s)
    \/ \E s \in Sessions : cleanupStaleUsers(s)
    \/ \E s \in Sessions : Vanish(s)
    \/ Tick

\* setInterval keeps calling the heartbeat and cleanupStaleUsers() of a client
\* until stopHeartbeat(), and the clock goes on
SpecSweepFair ==
    /\ InitCreate
    /\ [][NextSweep]_vars
    /\ WF_vars(Tick)
    /\ \A c \in Sessions : WF_vars(heartbeat(c)) /\ WF_vars(cleanupStaleUsers(c))

(* ------------------------- onEnter of one client ----------------------- *)
\* HypnoApp.updateConnections while this.selfData is not set: the
\* recomputation runs at once on the map of the peers
updateConnectionsBeforeConnect(app) ==
    LET done == managerUpdateConnections(app.connections, app.shapes, app.users, app.order)
    IN [app EXCEPT !.connections = done.connections,
                   !.ran = TRUE, !.allUsers = app.users, !.active = done.active]

\* HypnoApp.addUser called by onEnter for an entry of getAllUsers()
addUserBeforeConnect(app, userId, userData) ==
    IF userId = selfId THEN app
    ELSE IF app.users[userId] # NoUser
         THEN updateConnectionsBeforeConnect([app EXCEPT !.users[userId] = userData,
                                                         !.order = MapSet(@, userId)])
    ELSE IF app.shapes[userId] # "none" THEN app
    ELSE updateConnectionsBeforeConnect([app EXCEPT !.users[userId] = userData,
                                                    !.order = MapSet(@, userId),
                                                    !.shapes[userId] = "shown"])

\* existingUsers.forEach(...) over the snapshot getAllUsers() took, keys 1..k
RECURSIVE SeedUsers(_, _, _)
SeedUsers(app, db, k) ==
    IF k = 0 THEN app
    ELSE LET prev == SeedUsers(app, db, k - 1)
         IN IF k = selfId \/ ~UserExists(db, k) THEN prev
            ELSE addUserBeforeConnect(prev, k, db.users[k])

\* usersRef.on('child_added', ...): the listener is called once for every
\* child /users has when it is attached, keys 1..k
RECURSIVE InitialChildAdded(_, _, _)
InitialChildAdded(app, db, k) ==
    IF k = 0 THEN app
    ELSE LET prev == InitialChildAdded(app, db, k - 1)
         IN IF k = selfId \/ ~UserExists(db, k) THEN prev
            ELSE addUser(prev, db, k, db.users[k])

\* the client state after a step of the client selfId
SetApp(app) ==
    /\ appUsers' = app.users
    /\ appOrder' = app.order
    /\ shapes' = app.shapes
    /\ connections' = app.connections

\* onEnter up to the end of existingUsers.forEach
Seed ==
    /\ client[selfId] = Fresh
    /\ pc[selfId] = Idle
    /\ SetApp(SeedUsers(App, Store, NumSessions))
    /\ pc' = [pc EXCEPT ![selfId] = [Idle EXCEPT !.at = "seeded"]]
    /\ lastOp' = [op |-> "seed", s |-> selfId]
    /\ UNCHANGED <<users, sacredGeometry, selfData, nextGeometryId, now, others, client, hooks>>

\* the rest of onEnter: connect() writes the record, registers the hook and
\* attaches the listeners, then the own shape and the own map entry are set
EnterConnect ==
    /\ pc[selfId].at = "seeded"
    /\ canConnect(NumChildren)
    /\ LET db == [Store EXCEPT !.users[selfId] = [Connected(DefaultIntention) EXCEPT !.lastSeen = now]]
           own == [App EXCEPT !.users[selfId] = db.users[selfId],
                              !.order = MapSet(@, selfId),
                              !.shapes[selfId] = "shown"]
       IN /\ users' = db.users
          /\ SetApp(InitialChildAdded(own, db, NumSessions))
    /\ hooks' = hooks \cup {selfId}
    /\ client' = [client EXCEPT ![selfId] = Running]
    /\ pc' = [pc EXCEPT ![selfId] = Idle]
    /\ lastOp' = [op |-> "enter", s |-> selfId]
    /\ UNCHANGED <<sacredGeometry, selfData, nextGeometryId, now, others>>

\* another client connects; the write raises child_added at the client selfId
\* once its listeners are attached
PeerConnects(s) ==
    /\ s # selfId
    /\ ~client[s].userRef
    /\ canConnect(NumChildren)
    /\ LET db == [Store EXCEPT !.users[s] = [Connected(DefaultIntention) EXCEPT !.lastSeen = now]]
       IN /\ users' = db.users
          /\ SetApp(IF client[selfId].listening THEN Deliver(App, users[s], db, s) ELSE App)
    /\ hooks' = hooks \cup {s}
    /\ client' = [client EXCEPT ![s] = Running]
    /\ lastOp' = [op |-> "peerConnects", s |-> s]
    /\ UNCHANGED <<sacredGeometry, selfData, nextGeometryId, pc, now, others>>

\* the record of another client is removed by its disconnect(); the write
\* raises child_removed at the client selfId once its listeners are attached
PeerDisconnects(s) ==
    /\ s # selfId
    /\ client[s].userRef
    /\ client[s].timers
    /\ LET db == [Store EXCEPT !.users[s] = NoUser]
       IN /\ users' = db.users
          /\ SetApp(IF client[selfId].listening THEN Deliver(App, users[s], db, s) ELSE App)
    /\ client' = [client EXCEPT ![s] = [userRef |-> TRUE, timers |-> FALSE, listening |-> FALSE]]
    /\ lastOp' = [op |-> "peerDisconnects", s |-> s]
    /\ UNCHANGED <<sacredGeometry, selfData, nextGeometryId, pc, now, others, hooks>>

NextEnter ==
    \/ Seed
    \/ EnterConnect
    \/ \E s \in Sessions : PeerConnects(s)
    \/ \E s \in Sessions : PeerDisconnects(s)
    \/ \E u \in Sessions : ShapeFadeDone(u)

SpecEnter == InitPresence /\ [][NextEnter]_vars

(* ------------------------------ properties ----------------------------- *)
\* the intentions with the highest tally among the active members
MostCommonIntentions(members) ==
    {i \in Intentions :
        /\ IntentionCount(members, i) > 0
        /\ \A j \in Intentions : IntentionCount(members, j) <= IntentionCount(members, i)}

GroupsOf(s) == {g \in GeomIds : s \in ActiveMembers(sacredGeometry[g].members)}

\* C1: every session whose sacredGeometryId is set refers to a geometry that
\* exists and whose members map contains that session.
C1_GroupIdIsMembership ==
    \A s \in Sessions :
        users[s].sacredGeometryId # NoId =>
            /\ GeometryExists(Store, users[s].sacredGeometryId)
            /\ sacredGeometry[users[s].sacredGeometryId].members[s] # NoMember

\* C2: after create, accept, join and leave operations no session is an active
\* member of more than one geometry.
C2_AtMostOneGroup == \A s \in Sessions : Cardinality(GroupsOf(s)) <= 1

\* C4: a leave after which no active member remains deletes the geometry, even
\* when pending members remain; a leave after which an active member remains
\* keeps the geometry with exactly the remaining members; the caller's
\* sacredGeometryId is cleared in both cases.
C4_LeaveDeletesOrKeeps ==
    lastOp.op = "leave" =>
        LET remaining == [lastOp.pre.members EXCEPT ![lastOp.s] = NoMember]
        IN /\ users[lastOp.s].sacredGeometryId = NoId
           /\ ActiveMembers(remaining) = {} => ~GeometryExists(Store, lastOp.g)
           /\ ActiveMembers(remaining) # {} =>
                sacredGeometry[lastOp.g] = [lastOp.pre EXCEPT !.members = remaining]

\* reached: a leave deleted a geometry in which a pending member remained
C4_Witness ==
    /\ lastOp.op = "leave"
    /\ PendingMembers(lastOp.pre.members) \ {lastOp.s} # {}
    /\ ActiveMembers(lastOp.pre.members) = {lastOp.s}
    /\ ~GeometryExists(Store, lastOp.g)

\* C8: after create(Y) by X the new geometry has exactly the members X (active)
\* and Y (pending), its mainIntention is X's intention, totalMembersEver is 2,
\* X's sacredGeometryId is the geometry and Y holds the invite from X.
C8_CreatePostcondition ==
    lastOp.op = "create" =>
        LET X == lastOp.s
            Y == lastOp.t
            G == sacredGeometry[lastOp.g]
        IN /\ lastOp.pre = NoGeometry
           /\ GeometryExists(Store, lastOp.g)
           /\ ActiveMembers(G.members) = {X}
           /\ PendingMembers(G.members) = {Y}
           /\ G.mainIntention = users[X].intention
           /\ G.totalMembersEver = 2
           /\ G.createdBy = X
           /\ users[X].sacredGeometryId = lastOp.g
           /\ users[Y].sacredGeometryInvite = lastOp.g
           /\ users[Y].sacredGeometryInviteFrom = X

\* reached: a create between two sessions of different intentions
C8_Witness ==
    /\ lastOp.op = "create"
    /\ GeometryExists(Store, lastOp.g)
    /\ users[lastOp.s].intention # users[lastOp.t].intention

\* the accept ran for a pending member of an existing geometry
AcceptedPending ==
    /\ lastOp.op = "accept"
    /\ lastOp.pre # NoGeometry
    /\ lastOp.pre.members[lastOp.s] # NoMember
    /\ lastOp.pre.members[lastOp.s].pending

\* C9: after acceptInvite(G) by a pending invitee Y of an existing geometry, Y's
\* entry is active, Y's sacredGeometryId is G, Y's invite is cleared and the
\* mainIntention is a most common intention of the active members.
C9_AcceptPostcondition ==
    AcceptedPending =>
        LET Y == lastOp.s
            G == sacredGeometry[lastOp.g]
        IN /\ Y \in ActiveMembers(G.members)
           /\ users[Y].sacredGeometryId = lastOp.g
           /\ users[Y].sacredGeometryInvite = NoId
           /\ users[Y].sacredGeometryInviteFrom = NoId
           /\ G.mainIntention \in MostCommonIntentions(G.members)

\* reached: an accept that changed the mainIntention of a geometry of three
C9_Witness ==
    /\ AcceptedPending
    /\ Cardinality(ActiveMembers(sacredGeometry[lastOp.g].members)) = 3
    /\ sacredGeometry[lastOp.g].mainIntention # lastOp.pre.mainIntention

\* C10: when an active member leaves a geometry in which another member is
\* still active, the geometry persists with the remaining members and its
\* mainIntention is a most common intention of the remaining active members.
C10_LeaveRecomputes ==
    (/\ lastOp.op = "leave"
     /\ lastOp.s \in ActiveMembers(lastOp.pre.members)
     /\ ActiveMembers(lastOp.pre.members) \ {lastOp.s} # {}) =>
        /\ sacredGeometry[lastOp.g].members =
                [lastOp.pre.members EXCEPT ![lastOp.s] = NoMember]
        /\ sacredGeometry[lastOp.g].mainIntention
                \in MostCommonIntentions(sacredGeometry[lastOp.g].members)

\* C3: a connect() that observes a session count of MAX_CONNECTIONS or more
\* fails and changes nothing: no record, no hook, no timer, no listener.
C3_ConnectAtCapacityFails ==
    [][(lastOp'.op = "connect" /\ lastOp'.count >= MAX_CONNECTIONS) =>
        /\ ~lastOp'.ok
        /\ UNCHANGED <<users, hooks, client, others>>
        /\ ~UserExists([users |-> users', sacredGeometry |-> sacredGeometry'], lastOp'.s)
        /\ lastOp'.s \notin hooks'
        /\ client'[lastOp'.s] = Fresh]_vars

\* reached: a connect was refused at capacity
C3_Witness ==
    /\ lastOp.op = "connect"
    /\ lastOp.count >= MAX_CONNECTIONS
    /\ ~lastOp.ok
    /\ ~UserExists(Store, lastOp.s)

\* C6: when the highest tally is shared by several intentions, one of which is
\* the previous mainIntention, recomputation keeps the previous mainIntention.
C6_TieKeepsPrevious ==
    (/\ lastOp.op = "recompute"
     /\ Cardinality(MostCommonIntentions(sacredGeometry[1].members)) >= 2
     /\ lastOp.pre.mainIntention \in MostCommonIntentions(sacredGeometry[1].members)) =>
        sacredGeometry[1].mainIntention = lastOp.pre.mainIntention

\* C7: one sweep removes every session other than the caller's whose lastSeen is
\* more than StaleMs old, removes no session whose lastSeen is StaleMs old or
\* newer, and never removes the caller's own session.
C7_SweepRemovesExactlyStale ==
    [][lastOp'.op = "sweep" =>
        \A u \in Sessions :
            IF u = lastOp'.s \/ ~UserExists(Store, u) THEN users'[u] = users[u]
            ELSE /\ now - users[u].lastSeen > StaleMs => users'[u] = NoUser
                 /\ now - users[u].lastSeen <= StaleMs => users'[u] = users[u]]_vars

\* reached: a sweep removed a session and kept one whose lastSeen is exactly
\* StaleMs old, the sweeper's own lastSeen being older than that
C7_Witness ==
    /\ lastOp.op = "sweep"
    /\ lastOp.removed # {}
    /\ \E u \in Sessions \ {lastOp.s} :
            UserExists(Store, u) /\ now - users[u].lastSeen = StaleMs
    /\ UserExists(Store, lastOp.s)
    /\ now - users[lastOp.s].lastSeen > StaleMs

\* the last recomputation found the pair active, and its thread is in the
\* manager's map and flagged mutual
FlaggedMutual(a, b) ==
    /\ getConnectionId(a, b) \in lastOp.active
    /\ connections[getConnectionId(a, b)].inMap
    /\ connections[getConnectionId(a, b)].isMutual

\* C5: right after a recomputation, for all sessions A and B of the map it was
\* given, the connection of the pair is flagged mutual exactly when each of the
\* two names the other in its resonatingWith, whatever the enumeration order.
C5_MutualIffBothDirections ==
    (lastOp.op \in {"toggle", "lost"} /\ lastOp.ran) =>
        \A a, b \in Sessions :
            (a # b /\ lastOp.allUsers[a] # NoUser /\ lastOp.allUsers[b] # NoUser) =>
                (FlaggedMutual(a, b) <=>
                    (/\ Includes(lastOp.allUsers[a].resonatingWith, b)
                     /\ Includes(lastOp.allUsers[b].resonatingWith, a)))


\* C11: a create(target) by a caller whose session record already carries a
\* sacredGeometryId fails and writes nothing: no geometry appears, no session
\* field changes, whatever the caller's cached copy of its record says
C11_CreateRejectsGroupedCaller ==
    (/\ lastOp.op = "createSacredGeometry"
     /\ lastOp.sacredGeometryId # NoId)
    => /\ ~lastOp.ok
       /\ ~lastOp.wrote

\* C12: a create(target) that finds the caller's or the target's record
\* missing reports failure and leaves every geometry and every session record
\* as it was
C12_CreateAbortsOnMissingRecord ==
    (/\ lastOp.op = "createSacredGeometry"
     /\ (~lastOp.selfData \/ ~lastOp.targetData))
    => /\ ~lastOp.ok
       /\ ~lastOp.wrote

C12_Witness ==
    /\ lastOp.op = "createSacredGeometry"
    /\ lastOp.selfData
    /\ ~lastOp.targetData
    /\ \E g \in GeomIds : GeometryExists(Store, g)

\* C13: a declineInvite() by a session that holds an invite to G removes that
\* session's member entry from G and clears its invite and inviter fields, and
\* nothing else: G stays, its other members and fields, the caller's
\* sacredGeometryId and every other record are unchanged; a declineInvite() by
\* a session without an invite changes nothing
C13_DeclineFrame ==
    [][/\ lastOp'.op = "decline" =>
            LET s == lastOp'.s
                g == users[s].sacredGeometryInvite
            IN /\ g # NoId
               /\ users' = [users EXCEPT ![s].sacredGeometryInvite = NoId,
                                         ![s].sacredGeometryInviteFrom = NoId]
               /\ sacredGeometry' = [sacredGeometry EXCEPT ![g].members[s] = NoMember]
               /\ GeometryExists(Store, g) => GeometryExists(Store', g)
       /\ \A s \in Sessions :
            users[s].sacredGeometryInvite = NoId
                => declineSacredGeometryInvite(Store, s) = Store]_vars

C13_Witness ==
    /\ lastOp.op = "decline"
    /\ GeometryExists(Store, lastOp.g)
    /\ users[lastOp.s].sacredGeometryInvite = NoId
    /\ lastOp.pre.members[lastOp.s] # NoMember
    /\ sacredGeometry[lastOp.g].members[lastOp.s] = NoMember
    /\ \E m \in Sessions : sacredGeometry[lastOp.g].members[m] # NoMember

\* C14: every connection a recomputation reports as active has both endpoint
\* ids in the session map the recomputation was given; a resonatingWith entry
\* that names a session absent from the map adds no connection
C14_ActiveEndpointsPresent ==
    lastOp.op = "updateConnections" /\ lastOp.ran =>
        \A c \in lastOp.active : \A u \in c : lastOp.allUsers[u] # NoUser

C14_Witness ==
    /\ lastOp.op = "updateConnections"
    /\ lastOp.ran
    /\ lastOp.active # {}
    /\ \E u, t \in Sessions :
            /\ lastOp.allUsers[u] # NoUser
            /\ Includes(lastOp.allUsers[u].resonatingWith, t)
            /\ lastOp.allUsers[t] = NoUser

\* C15: no write to the store makes the client's feed call onUserAdded,
\* onUserChanged or onUserRemoved with the client's own session id
C15_NoCallbackForOwnId ==
    [][Callback(users[selfId], users'[selfId], selfId) = "none"]_vars

\* C16: an update of the own attributes by a client that is not connected
\* (before its connect() or after its disconnect()) writes nothing, so no
\* session record of that client exists afterwards
C16_UpdateWhileNotConnectedIsNoOp ==
    lastOp.op = "update" /\ ~lastOp.connected => ~UserExists(Store, lastOp.s)

\* C17: once the disconnect() of a client has completed, its record stays
\* absent, none of its sweep ticks runs, none of its callbacks (session feed,
\* count, geometry created, updated, removed) is invoked, and a second
\* disconnect() leaves the client as it is
C17_DisconnectTearsDown ==
    [][\A s \in Sessions :
        (client[s].userRef /\ ~client[s].timers) =>
            /\ ~UserExists(Store', s)
            /\ ~(lastOp'.op = "sweep" /\ lastOp'.s = s)
            /\ client'[s] = client[s]
            /\ ~FeedCallbackAt(s)
            /\ ~GeometryCallbackAt(s)]_vars

\* C18: from one state to the next the totalMembersEver of a geometry that
\* exists in both never decreases, whatever the interleaving of the clients'
\* joinOpen calls
C18_TotalNeverDecreases ==
    [][\A g \in GeomIds :
        GeometryExists(Store, g) /\ GeometryExists(Store', g)
            => sacredGeometry'[g].totalMembersEver >= sacredGeometry[g].totalMembersEver]_vars

\* C19: the record of a client that has vanished (no heartbeat any more, its
\* hook never run) is eventually removed, provided another client stays
\* connected with its sweep timer firing; the record's lastSeen is early enough
\* for the clock of the model to pass the stale threshold
C19_VanishedEventuallyRemoved ==
    \A s \in Sessions :
        [](\E c \in Sessions \ {s} : client[c].timers) =>
            ((/\ Vanished(s)
              /\ users[s].lastSeen + StaleMs + HeartbeatMs <= StartTime + MaxTicks * HeartbeatMs)
                ~> ~UserExists(Store, s))

C19_Witness ==
    /\ lastOp.op = "sweep"
    /\ client[lastOp.s].timers
    /\ \E s \in lastOp.removed : Vanished(s) /\ ~UserExists(Store, s)

\* C20: once the entering client has run its entry sequence (snapshot of the
\* sessions, connect, listeners attached) and every event has been delivered,
\* the ids of its local map other than its own are exactly the sessions in
\* the store other than its own, and no id is in the map twice
C20_PeerSetMatchesStore ==
    client[selfId].listening =>
        /\ {u \in Sessions \ {selfId} : appUsers[u] # NoUser}
                = {u \in Sessions \ {selfId} : UserExists(Store, u)}
        /\ \A i, j \in 1..Len(appOrder) : appOrder[i] = appOrder[j] => i = j

\* C21: when the feed calls onUserAdded for an id, also one the client has
\* seen removed before and whose shape is still fading out, the client tracks
\* the id afterwards in its participant map and in its scene
C21_ReAddIsFreshAdd ==
    [][\A u \in Sessions :
        Callback(users[u], users'[u], u) = "onUserAdded"
            => appUsers'[u] # NoUser /\ shapes'[u] = "shown"]_vars

\* C22: a recomputation reports and creates no connection whose two endpoints
\* are the same session, also when a session's resonatingWith holds its own id
C22_NoSelfConnection ==
    lastOp.op = "updateConnections" /\ lastOp.ran =>
        /\ \A c \in lastOp.active : Cardinality(c) = 2
        /\ \A u \in Sessions : ~connections[getConnectionId(u, u)].inMap

\* C23: accepting an invite to a group that is absent from the store (its
\* creator left while the invite was pending) creates no group record and does
\* not make the group the caller's sacredGeometryId
C23_AcceptOfAbsentGroupIsNoOp ==
    lastOp.op = "accept" /\ IsNoGeometry(lastOp.pre) =>
        /\ IsNoGeometry(sacredGeometry[lastOp.g])
        /\ users[lastOp.s].sacredGeometryId # lastOp.g

\* C24: when the disconnect hooks of a session remove the member entry of the
\* only active member of a group, the group is deleted, as leave() deletes it
C24_HookDeletesEmptiedGroup ==
    [][lastOp'.op = "hooks" =>
        \A g \in GeomIds :
            /\ ActiveMembers(sacredGeometry[g].members) # {}
            /\ ActiveMembers(sacredGeometry'[g].members) = {}
            => IsNoGeometry(sacredGeometry'[g])]_vars

\* C25: after a recomputation and once every fading thread is gone, the
\* manager's map holds exactly the pairs {A, P} with P in A's resonatingWith and
\* both in the map it was given, whatever the earlier calls removed
C25_ConnectionsMatchArrays ==
    (/\ lastOp.op \in {"updateConnections", "threadGone"}
     /\ \A c \in ConnIds : ~(connections[c].inMap /\ connections[c].isDisposing))
    => {c \in ConnIds : connections[c].inMap}
         = UNION {{getConnectionId(a, p) :
                     p \in {t \in Sessions : /\ appUsers[a] # NoUser
                                             /\ appUsers[t] # NoUser
                                             /\ Includes(appUsers[a].resonatingWith, t)}} :
                  a \in Sessions}

\* C26: the limit is exceeded only through interleaved connects: a connect()
\* whose write brings the number of records above MAX_CONNECTIONS read its
\* count before another client's record was written, and the count it read was
\* below the limit
C26_OvershootOnlyByInterleaving ==
    (lastOp.op = "connectSet" /\ NumChildren > MAX_CONNECTIONS) =>
        /\ lastOp.count < MAX_CONNECTIONS
        /\ lastOp.count < lastOp.before

\* reached: two clients read the count MAX_CONNECTIONS - 1, both wrote, and the
\* store holds more than MAX_CONNECTIONS records
C26_Witness ==
    /\ lastOp.op = "connectSet"
    /\ lastOp.count = MAX_CONNECTIONS - 1
    /\ lastOp.before = MAX_CONNECTIONS
    /\ NumChildren = MAX_CONNECTIONS + 1
    /\ others = MAX_CONNECTIONS - 1
    /\ Cardinality({s \in Sessions : UserExists(Store, s)}) = 2

\* C27: every session record of the store is a full record as connect() writes
\* it: it has its intention, its position and its lastSeen, whatever the
\* interleaving of heartbeats, sweeps and disconnects
C27_RecordsAreFull ==
    \A s \in Sessions :
        UserExists(Store, s) =>
            /\ users[s].intention # Null
            /\ users[s].position # Null
            /\ users[s].lastSeen # 0

\* C28: between group operations every session whose sacredGeometryInvite is
\* set names an existing geometry in which it has a pending member entry, and
\* every pending member entry belongs to a session whose sacredGeometryInvite
\* names that geometry
C28_InviteIffPendingEntry ==
    /\ \A s \in Sessions :
          users[s].sacredGeometryInvite # NoId =>
              /\ GeometryExists(Store, users[s].sacredGeometryInvite)
              /\ s \in PendingMembers(sacredGeometry[users[s].sacredGeometryInvite].members)
    /\ \A g \in GeomIds :
          \A s \in PendingMembers(sacredGeometry[g].members) :
              users[s].sacredGeometryInvite = g

\* C29: once a joinSacredGeometry(G) has completed, also one whose steps were
\* interleaved with the leave() of G's last other active member, the joiner is
\* an active member of G, G exists with its center and its creator, and the
\* joiner's sacredGeometryId is G
C29_CompletedJoinStands ==
    lastOp.op = "joinWrite" =>
        /\ GeometryExists(Store, lastOp.g)
        /\ lastOp.s \in ActiveMembers(sacredGeometry[lastOp.g].members)
        /\ sacredGeometry[lastOp.g].center # Null
        /\ sacredGeometry[lastOp.g].createdBy # NoId
        /\ users[lastOp.s].sacredGeometryId = lastOp.g

\* C30: once the addResonance and removeResonance calls of one client have
\* completed, however their reads and writes interleaved, its resonatingWith
\* holds no target twice and holds every target whose last completed call was
\* addResonance
C30_ResonatingWithIsASet ==
    (lastOp.op \in {"addResonance", "removeResonance"} /\ pc[selfId].at = "idle") =>
        LET arr == users[selfId].resonatingWith
        IN /\ \A i, j \in 1..Len(arr) : arr[i] = arr[j] => i = j
           /\ \A t \in Sessions : lastOp.last[t] = "addResonance" => Includes(arr, t)

====
